---- MODULE Spec2Model ----
(***************************************************************************)
(* Model of server/src/services/openRouterService.js: the retry wrapper    *)
(* retryWithExponentialBackoff, the completion client callOpenRouterAPI    *)
(* and the four generation functions that call it.                         *)
(*                                                                         *)
(* Every asynchronous chain (one call) is one element of Calls.  A step of *)
(* the model is one run-to-completion turn of the event loop: the code     *)
(* between two awaits that actually suspend (fetch, res.json(), the        *)
(* setTimeout promise).                                                    *)
(***************************************************************************)
EXTENDS Integers, Sequences, FiniteSets, TLC

VARIABLES
    apiKey, model, siteUrl, siteTitle,  \* module-scope configuration (lines 5-8)
    calls,         \* per call: the locals of its asynchronous chain (a record, see NewCall)
    reply,         \* parser specification: the decoded response body under extraction
    replyJson,     \* parser specification: the expectJson flag of that extraction
    extracted,     \* parser specification: what the extraction produced
    form           \* auth form: the component's state and what it did to its collaborators

vars == <<apiKey, model, siteUrl, siteTitle, calls, reply, replyJson, extracted, form>>

config == <<apiKey, model, siteUrl, siteTitle>>

(***************************************************************************)
(* Bounds of the model.                                                    *)
(***************************************************************************)
MaxRetriesBound == 4      \* largest maxRetries argument tried on the raw executor
MaxAuthCalls == 2         \* most signup/login calls one form makes in a run
MaxLen == 5               \* longest content (in tokens) given to the JSON extraction

Calls == {"c1", "c2"}     \* the calls that may be in flight together
RetryCalls == {"c1"}      \* the call used to exercise the executor on its own

(***************************************************************************)
(* JavaScript values.  Every value is a record of the same shape so that   *)
(* values of different JavaScript types can be compared.                   *)
(***************************************************************************)
UNDEFINED == [t |-> "undefined", s |-> <<>>, n |-> 0]
Str(s) == [t |-> "string", s |-> s, n |-> 0]
Obj(key, n) == [t |-> "object", s |-> <<key>>, n |-> n]
OpResult(k) == [t |-> "opresult", s |-> <<>>, n |-> k]

\* !v for the values a configuration variable can hold
Falsy(v) == v = UNDEFINED \/ v = Str(<<>>)

\* a || b
OrElse(a, b) == IF Falsy(a) THEN b ELSE a

(***************************************************************************)
(* Errors.  id tells apart two error objects thrown by different attempts. *)
(***************************************************************************)
NoStatus == 0 - 1
MkError(id, message, hasStatus, status) ==
    [id |-> id, message |-> message, hasStatus |-> hasStatus, status |-> status]
UNDEFINED_ERROR == MkError(0, <<"undefined">>, FALSE, NoStatus)

Returned(v) == [kind |-> "returned", value |-> v, error |-> UNDEFINED_ERROR]
Threw(e) == [kind |-> "threw", value |-> UNDEFINED, error |-> e]
Pending == [kind |-> "pending", value |-> UNDEFINED, error |-> UNDEFINED_ERROR]

(***************************************************************************)
(* The locals of one asynchronous chain.                                   *)
(*   pc          where the chain is suspended: "idle" (not started),       *)
(*               "calling" (apiCall() pending: the operation or fetch),    *)
(*               "reading" (res.json() pending), "waiting" (setTimeout     *)
(*               pending), "done" (settled)                                *)
(*   fn          the function called: a generation function, or the        *)
(*               executor itself with an arbitrary operation               *)
(*   prompt, expectJson      the arguments of callOpenRouterAPI            *)
(*   maxRetries, attempt, lastError   the executor's parameter and locals  *)
(*   timer       milliseconds left on the pending setTimeout               *)
(*   invocations how many times apiCall() has been invoked                 *)
(*   delays      the delayMs values passed to setTimeout, in order         *)
(*   requests    the fetch requests issued, in order                       *)
(*   responses   what the provider (or the operation) answered, in order   *)
(*   outcome     how the call settled                                      *)
(***************************************************************************)
NoPrompt == [template |-> "none", args |-> "none"]

NewCall ==
    [pc |-> "idle", fn |-> "none", prompt |-> NoPrompt, expectJson |-> FALSE,
     maxRetries |-> 0, attempt |-> 0, lastError |-> UNDEFINED_ERROR, timer |-> 0,
     invocations |-> 0, delays |-> <<>>, requests |-> <<>>, responses |-> <<>>,
     outcome |-> Pending]

(***************************************************************************)
(* The module-scope configuration as the requests read it.                 *)
(***************************************************************************)
DEFAULT_MODEL == Str(<<"openai/gpt-4o">>)
ENDPOINT == "https://openrouter.ai/api/v1/chat/completions"
RAW == "retryWithExponentialBackoff"   \* the executor called with an arbitrary operation

\* lines 66-78: the fetch request of callOpenRouterAPI
BuildRequest(p) ==
    [url |-> ENDPOINT, method |-> "POST",
     authorization |-> <<"Bearer ", apiKey>>,
     referer |-> siteUrl, title |-> siteTitle,
     contentType |-> "application/json",
     model |-> model,
     messages |-> <<[role |-> "user", content |-> p]>>]

(***************************************************************************)
(* What an invocation of apiCall() was answered with.                      *)
(*   kind  "resolved"/"rejected" (an arbitrary operation), "http" (fetch   *)
(*         resolved with a status), "network" (fetch rejected), "body"     *)
(*         (res.json() resolved), "badbody" (res.json() rejected)          *)
(*   error the error object the invocation failed with, if it failed       *)
(***************************************************************************)
NoBody == [isNull |-> TRUE, hasChoices |-> FALSE, hasContent |-> FALSE, content |-> <<>>]
Answer(kind, status, value, body, error) ==
    [kind |-> kind, status |-> status, value |-> value, body |-> body, error |-> error]

(***************************************************************************)
(* retryWithExponentialBackoff (lines 10-26)                               *)
(***************************************************************************)
RECURSIVE Pow2(_)
Pow2(n) == IF n <= 0 THEN 1 ELSE 2 * Pow2(n - 1)

\* line 19 missing: every failure is treated as retryable
IsRetryable_Always(error) == TRUE

\* line 18 also retrying failures that carry no status
IsRetryable_NoStatusToo(error) ==
    \/ ~error.hasStatus
    \/ error.status = 503 \/ error.status = 429 \/ error.status = 500

\* line 18
IsRetryable(error) ==
    \/ (error.hasStatus /\ error.status = 503)
    \/ (error.hasStatus /\ error.status = 429)
    \/ (error.hasStatus /\ error.status = 500)

\* line 21 with the exponent off by one: Math.pow(2, attempt)
DelayMs_OffByOne(k) == Pow2(k) * 1000

\* line 21
DelayMs(k) == Pow2(k - 1) * 1000

\* lines 19 and 25: the promise of the call rejects with e
Reject(r, e) == [r EXCEPT !.pc = "done", !.outcome = Threw(e)]

\* line 14: apiCall() is invoked; for callOpenRouterAPI that issues the fetch of line 66
InvokeApiCall(r) ==
    LET r1 == [r EXCEPT !.invocations = @ + 1, !.pc = "calling"]
    IN  IF r.fn = RAW
        THEN r1
        ELSE [r1 EXCEPT !.requests = Append(@, BuildRequest(r.prompt))]

\* line 12 (the loop test) with line 14 when it passes and line 25 when it does not
LoopTest(r) ==
    IF r.attempt <= r.maxRetries THEN InvokeApiCall(r) ELSE Reject(r, r.lastError)

\* lines 10-12: entry of the executor
RetryStart(r, mr) ==
    LoopTest([r EXCEPT !.maxRetries = mr, !.attempt = 1, !.lastError = UNDEFINED_ERROR])

\* line 20 missing: the executor also waits after the last allowed attempt
Catch_DelayAfterLast(r, error) ==
    LET r1 == [r EXCEPT !.lastError = error]
    IN  IF ~IsRetryable(error)
        THEN Reject(r1, error)
        ELSE [r1 EXCEPT !.pc = "waiting",
                        !.timer = DelayMs(r1.attempt),
                        !.delays = Append(@, DelayMs(r1.attempt))]

\* line 17 keeps the first error instead of the last one
Catch_KeepFirstError(r, error) ==
    LET r1 == [r EXCEPT !.lastError = IF @ = UNDEFINED_ERROR THEN error ELSE @]
    IN  IF ~IsRetryable(error)
        THEN Reject(r1, error)
        ELSE IF r1.attempt = r1.maxRetries
             THEN Reject(r1, r1.lastError)
             ELSE [r1 EXCEPT !.pc = "waiting",
                             !.timer = DelayMs(r1.attempt),
                             !.delays = Append(@, DelayMs(r1.attempt))]

\* attempt held at module scope: the last-attempt test of line 20 reads the counter
\* of whichever call advanced it furthest
Catch_SharedAttempt(r, error) ==
    LET r1 == [r EXCEPT !.lastError = error]
    IN  IF ~IsRetryable(error)
        THEN Reject(r1, error)
        ELSE IF \E c \in Calls : calls[c].attempt >= r1.maxRetries
             THEN Reject(r1, r1.lastError)
             ELSE [r1 EXCEPT !.pc = "waiting",
                             !.timer = DelayMs(r1.attempt),
                             !.delays = Append(@, DelayMs(r1.attempt))]

\* lines 16-23 (and 25 after the break): the catch block
Catch(r, error) ==
    LET r1 == [r EXCEPT !.lastError = error]
    IN  IF ~IsRetryable(error)
        THEN Reject(r1, error)
        ELSE IF r1.attempt = r1.maxRetries
             THEN Reject(r1, r1.lastError)
             ELSE [r1 EXCEPT !.pc = "waiting",
                             !.timer = DelayMs(r1.attempt),
                             !.delays = Append(@, DelayMs(r1.attempt))]

\* line 22 resolved, then line 12: attempt++ and the loop test
AfterDelay(r) == LoopTest([r EXCEPT !.attempt = @ + 1])

(***************************************************************************)
(* Response text.  A content string is a sequence of tokens; its text is   *)
(* their concatenation.  The tokens are the pieces the extraction of       *)
(* lines 88-97 tells apart.                                                *)
(***************************************************************************)
FENCE_JSON == "<fence>json"   \* three backquotes followed by json
FENCE == "<fence>"            \* three backquotes not followed by json
NL == "<newline>"
JSON_TEXT == "{a:1}"          \* the text of a JSON value
JUNK == "oops"
Tokens == {FENCE_JSON, FENCE, NL, JSON_TEXT, JUNK}

Contents == UNION {[1..n -> Tokens] : n \in 0..MaxLen}

SyntaxError(id) == MkError(id, <<"SyntaxError: Unexpected token">>, FALSE, NoStatus)
TypeError(id) == MkError(id, <<"TypeError: Cannot read properties of null">>, FALSE, NoStatus)
ParseFailure(id) == MkError(id, <<"Failed to parse JSON from OpenRouter response">>, FALSE, NoStatus)

\* JSON.parse (lines 90, 95): one JSON value, white space allowed around it
JSONParse(t) ==
    LET body == SelectSeq(t, LAMBDA x : x # NL)
    IN  IF body = <<JSON_TEXT>>
        THEN [ok |-> TRUE, value |-> Obj("a", 1)]
        ELSE [ok |-> FALSE, value |-> UNDEFINED]

\* line 93: text.match of the fenced-block pattern: an opening fence labelled json and
\* a newline, the shortest inner text, a newline and a fence.  The match is the leftmost
\* opening that has a closing, with the nearest closing after it.
OpensAt(t, i) == i + 1 <= Len(t) /\ t[i] = FENCE_JSON /\ t[i + 1] = NL
ClosesAt(t, k) == k + 1 <= Len(t) /\ t[k] = NL /\ t[k + 1] \in {FENCE, FENCE_JSON}
Closings(t, i) == {k \in (i + 2)..Len(t) : ClosesAt(t, k)}
Openings(t) == {i \in 1..Len(t) : OpensAt(t, i) /\ Closings(t, i) # {}}
Least(S) == CHOOSE x \in S : \A y \in S : x <= y
MatchFence(t) ==
    IF Openings(t) = {}
    THEN [found |-> FALSE, inner |-> <<>>]
    ELSE LET i == Least(Openings(t))
             k == Least(Closings(t, i))
         IN  [found |-> TRUE, inner |-> SubSeq(t, i + 2, k - 1)]

\* lines 88 and 100: the first choice's message content, or the empty string
ContentOf(body) ==
    IF body.hasChoices /\ body.hasContent THEN body.content ELSE <<>>

\* lines 86-100: what callOpenRouterAPI does with the executor's result
ExtractReply(body, json, id) ==
    IF body.isNull
    THEN Threw(TypeError(id))
    ELSE IF json
         THEN LET direct == JSONParse(ContentOf(body))
                  m == MatchFence(ContentOf(body))
              IN  IF direct.ok
                  THEN Returned(direct.value)
                  ELSE IF m.found
                       THEN IF JSONParse(m.inner).ok
                            THEN Returned(JSONParse(m.inner).value)
                            ELSE Threw(SyntaxError(id))
                       ELSE Threw(ParseFailure(id))
         ELSE Returned(Str(ContentOf(body)))

(***************************************************************************)
(* The exported generation functions (lines 37-62).                        *)
(***************************************************************************)
GenerationFns == {"generateComprehensiveNote", "generateCourseContent",
                  "generateChatResponse", "generateAdditionalQuizQuestions"}

\* the second argument each passes to callOpenRouterAPI (lines 40, 46, 55, 61)
ExpectsJson(f) == f \in {"generateCourseContent", "generateAdditionalQuizQuestions"}

\* the template literal of each (lines 39, 45, 51-54, 60) filled with its arguments
PromptOf(f, args) == [template |-> f, args |-> args]

ConfigError(id) == MkError(id, <<"OpenAI API key not set.">>, FALSE, NoStatus)
DEFAULT_MAX_RETRIES == 3

\* lines 38/44/50/59 missing: the key is not checked
StartGeneration_NoKeyCheck(r, f, args) ==
    RetryStart([r EXCEPT !.fn = f, !.prompt = PromptOf(f, args),
                         !.expectJson = ExpectsJson(f)],
               DEFAULT_MAX_RETRIES)

\* lines 38/44/50/59, then callOpenRouterAPI up to its first suspension (line 66)
StartGeneration(r, f, args) ==
    IF Falsy(apiKey)
    THEN Reject([r EXCEPT !.fn = f], ConfigError(0))
    ELSE RetryStart([r EXCEPT !.fn = f, !.prompt = PromptOf(f, args),
                              !.expectJson = ExpectsJson(f)],
                    DEFAULT_MAX_RETRIES)

\* line 81 missing: the error carries no status
HttpError_Untagged(id, status) ==
    MkError(id, <<"OpenRouter API error: ", status>>, FALSE, NoStatus)

\* lines 79-83: the error made from a response that is not ok
HttpError(id, status) == MkError(id, <<"OpenRouter API error: ", status>>, TRUE, status)
\* res.ok
Ok(status) == status >= 200 /\ status <= 299

\* lines 79-84: fetch resolved with a response of this status
OnResponse(r, status) ==
    LET r1 == [r EXCEPT !.responses = Append(@, Answer("http", status, UNDEFINED, NoBody,
                           IF Ok(status) THEN UNDEFINED_ERROR ELSE HttpError(r.invocations, status)))]
    IN  IF ~Ok(status)
        THEN Catch(r1, HttpError(r.invocations, status))
        ELSE [r1 EXCEPT !.pc = "reading"]

\* line 66: fetch rejected (no connection); node-fetch's FetchError has no status
FetchError(id) == MkError(id, <<"FetchError: request failed">>, FALSE, NoStatus)
OnNetworkFailure(r) ==
    Catch([r EXCEPT !.responses = Append(@, Answer("network", 0, UNDEFINED, NoBody,
                                            FetchError(r.invocations)))],
          FetchError(r.invocations))

\* line 84 resolved, line 15, then lines 86-100
OnBody(r, body) ==
    [r EXCEPT !.responses = Append(@, Answer("body", 0, UNDEFINED, body, UNDEFINED_ERROR)),
              !.pc = "done",
              !.outcome = ExtractReply(body, r.expectJson, r.invocations)]

\* line 84 rejected: the body is not JSON; the rejection reaches the catch of line 16
BodyError(id) == MkError(id, <<"FetchError: invalid json response body">>, FALSE, NoStatus)
OnBadBody(r) ==
    Catch([r EXCEPT !.responses = Append(@, Answer("badbody", 0, UNDEFINED, NoBody,
                                            BodyError(r.invocations)))],
          BodyError(r.invocations))

\* line 15 missing: the result is kept but the loop goes on
OnResolved_NoReturn(r, v) ==
    AfterDelay([r EXCEPT !.responses = Append(@, Answer("resolved", 0, v, NoBody, UNDEFINED_ERROR)),
                         !.outcome = Returned(v)])

\* line 14-15 for an arbitrary operation: it resolved with a value
OnResolved(r, v) ==
    [r EXCEPT !.responses = Append(@, Answer("resolved", 0, v, NoBody, UNDEFINED_ERROR)),
              !.pc = "done", !.outcome = Returned(v)]

\* line 16 for an arbitrary operation: it rejected with an error
OnRejected(r, e) ==
    Catch([r EXCEPT !.responses = Append(@, Answer("rejected", e.status, UNDEFINED, NoBody, e))],
          e)

(***************************************************************************)
(* Inputs.                                                                 *)
(***************************************************************************)
\* process.env values at module load (lines 5-8): unset, empty or set
EnvKeys == {UNDEFINED, Str(<<>>), Str(<<"sk-or-key">>)}
\* OPENAI_MODEL, SITE_URL and SITE_TITLE: all unset, or all set
EnvRest == {[model |-> UNDEFINED, url |-> UNDEFINED, title |-> UNDEFINED],
            [model |-> Str(<<"custom/model">>),
             url |-> Str(<<"https://mindsphere.example">>),
             title |-> Str(<<"MindSphere">>)]}

\* the argument lists given to a generation function
ArgLists == {"args"}

\* statuses the provider answers with: success, a client error, and two of the
\* retryable ones (all three retryable statuses are exercised under SpecRetry)
HttpStatuses == {200, 400, 429, 503}

\* statuses an arbitrary operation's error carries (besides carrying none)
OpStatuses == {400, 429, 500, 503}

Body(content) == [isNull |-> FALSE, hasChoices |-> TRUE, hasContent |-> TRUE, content |-> content]
NullBody == NoBody
NoChoices == [isNull |-> FALSE, hasChoices |-> FALSE, hasContent |-> FALSE, content |-> <<>>]
NoContent == [isNull |-> FALSE, hasChoices |-> TRUE, hasContent |-> FALSE, content |-> <<>>]

\* decoded bodies the provider answers a generation call with
ProviderBodies ==
    {NoChoices, Body(<<JUNK>>), Body(<<JSON_TEXT>>),
     Body(<<FENCE_JSON, NL, JUNK, NL, FENCE>>)}

\* decoded bodies given to the extraction on its own
AllBodies == {NullBody, NoChoices, NoContent} \cup {Body(t) : t \in Contents}

(***************************************************************************)
(* Initial states: the module has been loaded, no call has been made.      *)
(***************************************************************************)
InitConfig ==
    /\ apiKey \in EnvKeys                                            \* line 5
    /\ \E e \in EnvRest : /\ model = OrElse(e.model, DEFAULT_MODEL)  \* line 6
                          /\ siteUrl = OrElse(e.url, Str(<<>>))       \* line 7
                          /\ siteTitle = OrElse(e.title, Str(<<>>))   \* line 8

Init ==
    /\ InitConfig
    /\ calls = [c \in Calls |-> NewCall]
    /\ reply = NoBody
    /\ replyJson = FALSE
    /\ extracted = Pending
    /\ form = [component |-> "none"]

(***************************************************************************)
(* Steps shared by every use of the executor.                              *)
(***************************************************************************)
Waiting(c) == calls[c].pc = "waiting"

\* the setTimeout of line 22 is due: its callback resolves the promise and the
\* loop goes on
TimerFires(c) ==
    /\ Waiting(c)
    /\ calls[c].timer = 0
    /\ calls' = [calls EXCEPT ![c] = AfterDelay(@)]
    /\ UNCHANGED <<config, reply, replyJson, extracted, form>>

\* time passes until the next pending timer is due; every pending timer runs
Elapse ==
    LET pending == {c \in Calls : Waiting(c) /\ calls[c].timer > 0}
    IN  /\ pending # {}
        /\ LET d == Least({calls[c].timer : c \in pending})
           IN  calls' = [c \in Calls |->
                           IF c \in pending
                           THEN [calls[c] EXCEPT !.timer = @ - d]
                           ELSE calls[c]]
        /\ UNCHANGED <<config, reply, replyJson, extracted, form>>

(***************************************************************************)
(* The executor called with an arbitrary operation.                        *)
(***************************************************************************)
Invoke(c, mr) ==
    /\ calls[c].pc = "idle"
    /\ calls' = [calls EXCEPT ![c] = RetryStart([@ EXCEPT !.fn = RAW], mr)]
    /\ UNCHANGED <<config, reply, replyJson, extracted, form>>

OperationResolves(c) ==
    /\ calls[c].pc = "calling" /\ calls[c].fn = RAW
    /\ calls' = [calls EXCEPT ![c] = OnResolved(@, OpResult(@.invocations))]
    /\ UNCHANGED <<config, reply, replyJson, extracted, form>>

OperationRejects(c, hasStatus, status) ==
    /\ calls[c].pc = "calling" /\ calls[c].fn = RAW
    /\ calls' = [calls EXCEPT ![c] =
                    OnRejected(@, MkError(@.invocations, <<"operation failed">>,
                                          hasStatus, status))]
    /\ UNCHANGED <<config, reply, replyJson, extracted, form>>

NextRetry ==
    \/ \E c \in RetryCalls, mr \in 1..MaxRetriesBound : Invoke(c, mr)
    \/ \E c \in RetryCalls : OperationResolves(c)
    \/ \E c \in RetryCalls, s \in OpStatuses : OperationRejects(c, TRUE, s)
    \/ \E c \in RetryCalls : OperationRejects(c, FALSE, NoStatus)
    \/ \E c \in RetryCalls : TimerFires(c)
    \/ Elapse

SpecRetry == Init /\ [][NextRetry]_vars

(***************************************************************************)
(* Generation calls against the provider.                                  *)
(***************************************************************************)
Generate(c, f, args) ==
    /\ calls[c].pc = "idle"
    /\ calls' = [calls EXCEPT ![c] = StartGeneration(@, f, args)]
    /\ UNCHANGED <<config, reply, replyJson, extracted, form>>

Fetching(c) == calls[c].pc = "calling" /\ calls[c].fn \in GenerationFns

FetchResponds(c, status) ==
    /\ Fetching(c)
    /\ calls' = [calls EXCEPT ![c] = OnResponse(@, status)]
    /\ UNCHANGED <<config, reply, replyJson, extracted, form>>

FetchFails(c) ==
    /\ Fetching(c)
    /\ calls' = [calls EXCEPT ![c] = OnNetworkFailure(@)]
    /\ UNCHANGED <<config, reply, replyJson, extracted, form>>

BodyDecoded(c, body) ==
    /\ calls[c].pc = "reading"
    /\ calls' = [calls EXCEPT ![c] = OnBody(@, body)]
    /\ UNCHANGED <<config, reply, replyJson, extracted, form>>

BodyUndecodable(c) ==
    /\ calls[c].pc = "reading"
    /\ calls' = [calls EXCEPT ![c] = OnBadBody(@)]
    /\ UNCHANGED <<config, reply, replyJson, extracted, form>>

Next ==
    \/ \E c \in Calls, f \in GenerationFns, a \in ArgLists : Generate(c, f, a)
    \/ \E c \in Calls, s \in HttpStatuses : FetchResponds(c, s)
    \/ \E c \in Calls : FetchFails(c)
    \/ \E c \in Calls, b \in ProviderBodies : BodyDecoded(c, b)
    \/ \E c \in Calls : BodyUndecodable(c)
    \/ \E c \in Calls : TimerFires(c)
    \/ Elapse

Spec == Init /\ [][Next]_vars

(***************************************************************************)
(* The extraction of lines 86-100 on its own.                              *)
(***************************************************************************)
Receive(body, json) ==
    /\ reply' = body
    /\ replyJson' = json
    /\ extracted' = ExtractReply(body, json, 1)
    /\ UNCHANGED <<config, calls, form>>

NextParse ==
    /\ extracted.kind = "pending"
    /\ \E b \in AllBodies, j \in BOOLEAN : Receive(b, j)

SpecParse == Init /\ [][NextParse]_vars

(***************************************************************************)
(* Properties of the executor (checked under SpecRetry).                   *)
(***************************************************************************)
RetryableStatuses == {429, 500, 503}
Started(c) == calls[c].pc # "idle"
Done(c) == calls[c].pc = "done"
Raw(c) == calls[c].fn = RAW
Answers(c) == calls[c].responses
RetryableRejection(a) == a.kind = "rejected" /\ a.status \in RetryableStatuses
TerminalRejection(a) == a.kind = "rejected" /\ a.status \notin RetryableStatuses
AllRetryable(c) == \A k \in 1..Len(Answers(c)) : RetryableRejection(Answers(c)[k])
Min(a, b) == IF a <= b THEN a ELSE b

\* C1: when an attempt of the executor fails with an error whose status is not
\* 429, 500 or 503 (or that has no status), the call is settled at once by raising
\* that very error: the failing attempt is the last invocation of the operation and
\* no delay follows it (so a first-attempt failure leaves one invocation, no delay).
C1_NonRetryablePropagates ==
    \A c \in Calls : Raw(c) =>
        \A k \in 1..Len(Answers(c)) :
            TerminalRejection(Answers(c)[k]) =>
                /\ k = Len(Answers(c))
                /\ Done(c)
                /\ calls[c].outcome = Threw(Answers(c)[k].error)
                /\ calls[c].outcome.error.id = k
                /\ calls[c].invocations = k
                /\ Len(calls[c].delays) = k - 1

C1_Witness ==
    \E c \in Calls :
        /\ Raw(c) /\ Done(c) /\ calls[c].maxRetries = 3
        /\ Len(Answers(c)) = 2
        /\ RetryableRejection(Answers(c)[1])
        /\ Answers(c)[2].kind = "rejected" /\ ~Answers(c)[2].error.hasStatus

\* C2 as claimed: with maxRetries = 3 and every failure retryable the executor waits
\* 1000 ms, 2000 ms and 4000 ms, one wait after each failed attempt, then raises the
\* final error.
C2_AsClaimed ==
    \A c \in Calls :
        (Raw(c) /\ calls[c].maxRetries = 3 /\ Done(c) /\ AllRetryable(c)) =>
            /\ calls[c].delays = <<1000, 2000, 4000>>
            /\ calls[c].outcome = Threw(Answers(c)[Len(Answers(c))].error)

\* C2 amended: with maxRetries = 3 and every failure retryable the executor invokes
\* the operation three times, waiting 1000 ms after the first failure and 2000 ms after
\* the second and not at all after the third, and then raises the third error.
C2_ThreeAttemptsTwoDelays ==
    \A c \in Calls :
        (Raw(c) /\ calls[c].maxRetries = 3 /\ AllRetryable(c)) =>
            LET n == Len(Answers(c))
            IN  /\ n <= 3
                /\ calls[c].delays = SubSeq(<<1000, 2000>>, 1, Min(n, 2))
                /\ n < 3 => ~Done(c)
                /\ n = 3 => /\ Done(c)
                            /\ calls[c].invocations = 3
                            /\ calls[c].outcome = Threw(Answers(c)[3].error)
                            /\ calls[c].outcome.error.id = 3

C2_Witness ==
    \E c \in Calls :
        /\ Raw(c) /\ calls[c].maxRetries = 3 /\ Done(c) /\ AllRetryable(c)
        /\ Len(Answers(c)) = 3
        /\ {Answers(c)[k].status : k \in 1..3} = RetryableStatuses

\* C3: when the operation succeeds on attempt k after k-1 retryable failures, the
\* executor returns the result of attempt k, the operation has been invoked exactly
\* k times and is not invoked again.
C3_SuccessReturnsAndStops ==
    \A c \in Calls : Raw(c) =>
        \A k \in 1..Len(Answers(c)) :
            Answers(c)[k].kind = "resolved" =>
                /\ k = Len(Answers(c))
                /\ k <= calls[c].maxRetries
                /\ \A j \in 1..(k - 1) : RetryableRejection(Answers(c)[j])
                /\ Done(c)
                /\ calls[c].outcome = Returned(OpResult(k))
                /\ calls[c].invocations = k
                /\ Len(calls[c].delays) = k - 1

C3_Witness ==
    \E c \in Calls :
        /\ Raw(c) /\ Done(c)
        /\ Len(Answers(c)) = 3 /\ calls[c].maxRetries = 3
        /\ Answers(c)[3].kind = "resolved"
        /\ calls[c].outcome.kind = "returned"

\* C4: a call of the executor that settles without a result raises an error thrown
\* by the operation, the one of its latest attempt; after maxRetries retryable failures
\* that is the error of the final attempt; a call whose latest attempt failed never
\* settles by returning.
C4_LastErrorRaised ==
    \A c \in Calls : (Raw(c) /\ Done(c)) =>
        LET n == Len(Answers(c))
        IN  /\ n >= 1
            /\ calls[c].outcome.kind \in {"returned", "threw"}
            /\ calls[c].outcome.kind = "returned" <=> Answers(c)[n].kind = "resolved"
            /\ calls[c].outcome.kind = "threw" =>
                   /\ Answers(c)[n].kind = "rejected"
                   /\ calls[c].outcome.error = Answers(c)[n].error
                   /\ calls[c].outcome.error.id = n
                   /\ calls[c].outcome.error # UNDEFINED_ERROR
            /\ AllRetryable(c) => (n = calls[c].maxRetries /\ calls[c].outcome.kind = "threw")

C4_Witness ==
    \E c \in Calls :
        /\ Raw(c) /\ Done(c) /\ AllRetryable(c)
        /\ Len(Answers(c)) = 3
        /\ Answers(c)[1].status = 429 /\ Answers(c)[3].status = 503
        /\ calls[c].outcome.error.status = 503

(***************************************************************************)
(* Properties of the generation calls (checked under Spec).                *)
(***************************************************************************)
Generation(c) == calls[c].fn \in GenerationFns
HttpOk(a) == a.kind = "http" /\ a.status >= 200 /\ a.status <= 299
HttpFailure(a) == a.kind = "http" /\ ~(a.status >= 200 /\ a.status <= 299)

\* C5: while the API key is unset (undefined or empty), every generation call that
\* has been made has failed with the configuration error and has issued no request,
\* no invocation of the wrapped operation and no delay.
C5_NoKeyNoRequest ==
    (apiKey = UNDEFINED \/ apiKey = Str(<<>>)) =>
        \A c \in Calls : Started(c) =>
            /\ Done(c)
            /\ calls[c].fn \in GenerationFns
            /\ calls[c].outcome.kind = "threw"
            /\ calls[c].outcome.error.message = <<"OpenAI API key not set.">>
            /\ calls[c].requests = <<>>
            /\ calls[c].invocations = 0
            /\ calls[c].delays = <<>>
            /\ calls[c].responses = <<>>

C5_Witness ==
    /\ apiKey = Str(<<>>)
    /\ \E c, d \in Calls :
          /\ Done(c) /\ calls[c].fn = "generateCourseContent"
          /\ Done(d) /\ calls[d].fn = "generateChatResponse"

(***************************************************************************)
(* The JSON extraction (checked under SpecParse).                          *)
(***************************************************************************)
Extractable(t) ==
    \/ JSONParse(t).ok
    \/ MatchFence(t).found /\ JSONParse(MatchFence(t).inner).ok

\* C6: in JSON mode the content is parsed whole first and the inner text of the
\* fenced json block second; when neither yields JSON (absent or empty content
\* included) the call fails with the error 'Failed to parse JSON from OpenRouter
\* response'.
C6_DistinctParseError ==
    (extracted.kind # "pending" /\ replyJson /\ ~reply.isNull) =>
        /\ JSONParse(ContentOf(reply)).ok =>
               extracted = Returned(JSONParse(ContentOf(reply)).value)
        /\ (~JSONParse(ContentOf(reply)).ok /\ Extractable(ContentOf(reply))) =>
               extracted = Returned(JSONParse(MatchFence(ContentOf(reply)).inner).value)
        /\ ~Extractable(ContentOf(reply)) =>
               /\ extracted.kind = "threw"
               /\ extracted.error.message = <<"Failed to parse JSON from OpenRouter response">>

(***************************************************************************)
(* More properties of the generation calls (checked under Spec).           *)
(***************************************************************************)
\* C7: once the provider has answered a call with a success status, that call sends
\* no further request and waits no further delay, whatever becomes of the body: the
\* answer with the success status is the answer to the call's last request, and the
\* next event settles the call.  A body that cannot be decoded raises its own error,
\* which carries no status.
C7_ParseFailureNotRetried ==
    \A c \in Calls :
        \A k \in 1..Len(Answers(c)) :
            HttpOk(Answers(c)[k]) =>
                /\ Len(calls[c].requests) = k
                /\ calls[c].invocations = k
                /\ Len(calls[c].delays) = k - 1
                /\ calls[c].pc \in {"reading", "done"}
                /\ Len(Answers(c)) <= k + 1
                /\ Len(Answers(c)) = k + 1 =>
                       /\ Done(c)
                       /\ Answers(c)[k + 1].kind \in {"body", "badbody"}
                       /\ Answers(c)[k + 1].kind = "badbody" =>
                              /\ calls[c].outcome = Threw(Answers(c)[k + 1].error)
                              /\ ~calls[c].outcome.error.hasStatus

C7_Witness ==
    \E c, d \in Calls :
        /\ Done(c) /\ calls[c].expectJson
        /\ Len(Answers(c)) = 3
        /\ HttpOk(Answers(c)[2])
        /\ Answers(c)[3].kind = "body"
        /\ calls[c].outcome.kind = "threw"
        /\ Done(d) /\ Len(Answers(d)) = 2
        /\ Answers(d)[2].kind = "badbody"

\* C8: the wait after failed attempt k is 2^(k-1)*1000 ms exactly (1000 ms after the
\* first, 2000 ms after the second), the timer is set to that value, and the next
\* request is sent only when the timer has run out.  A generateCourseContent call
\* answered 503, 503, then 200 with valid JSON text returns the parsed object after
\* three requests and the delays 1000 ms and 2000 ms.
C8_DelayValues ==
    \A c \in Calls : Generation(c) =>
        /\ Len(calls[c].delays) <= 2
        /\ \A k \in 1..Len(calls[c].delays) : calls[c].delays[k] = <<1000, 2000>>[k]
        /\ Len(calls[c].delays) = IF Waiting(c) THEN Len(calls[c].requests)
                                  ELSE IF Len(calls[c].requests) = 0 THEN 0
                                  ELSE Len(calls[c].requests) - 1
        /\ ( /\ calls[c].fn = "generateCourseContent"
             /\ Len(Answers(c)) = 4
             /\ [k \in 1..3 |-> Answers(c)[k].status] = <<503, 503, 200>>
             /\ Answers(c)[4].kind = "body"
             /\ Answers(c)[4].body = Body(<<JSON_TEXT>>) )
           => /\ calls[c].outcome = Returned(Obj("a", 1))
              /\ Len(calls[c].requests) = 3
              /\ calls[c].delays = <<1000, 2000>>

C8_WaitBeforeRetry ==
    \A c \in Calls :
        /\ (Len(calls'[c].requests) > Len(calls[c].requests) /\ Len(calls[c].requests) >= 1)
               => (Waiting(c) /\ calls[c].timer = 0)
        /\ (calls'[c].pc = "waiting" /\ ~Waiting(c))
               => calls'[c].timer = <<1000, 2000>>[Len(calls[c].requests)]

C8_ExactBackoff == [](C8_DelayValues) /\ [][C8_WaitBeforeRetry]_vars

C8_Witness ==
    \E c \in Calls :
        /\ calls[c].fn = "generateCourseContent"
        /\ Len(Answers(c)) = 4
        /\ [k \in 1..3 |-> Answers(c)[k].status] = <<503, 503, 200>>
        /\ Answers(c)[4].body = Body(<<JSON_TEXT>>)
        /\ calls[c].outcome.kind = "returned"

\* C9: every request of a call is the same request: the prompt built for the call,
\* the configured model, key and site headers.  A call that got past the key check
\* sends between 1 and 3 requests.  A response that is not ok becomes an error whose
\* status is the response's status, and the retry decision follows that status.
C9_IdenticalRequests ==
    \A c \in Calls : (Started(c) /\ ~(apiKey = UNDEFINED \/ apiKey = Str(<<>>))) =>
        /\ Len(calls[c].requests) \in 1..3
        /\ calls[c].prompt.template = calls[c].fn
        /\ \A i \in 1..Len(calls[c].requests) :
              /\ calls[c].requests[i] = calls[c].requests[1]
              /\ calls[c].requests[i].messages = <<[role |-> "user", content |-> calls[c].prompt]>>
              /\ calls[c].requests[i].model = model
              /\ calls[c].requests[i].authorization = <<"Bearer ", apiKey>>
              /\ calls[c].requests[i].referer = siteUrl
              /\ calls[c].requests[i].title = siteTitle
              /\ calls[c].requests[i].contentType = "application/json"
              /\ calls[c].requests[i].method = "POST"
        /\ LET n == Len(Answers(c))
           IN  (n >= 1 /\ HttpFailure(Answers(c)[n])) =>
                  /\ calls[c].lastError.hasStatus
                  /\ calls[c].lastError.status = Answers(c)[n].status
                  /\ calls[c].lastError.message = <<"OpenRouter API error: ", Answers(c)[n].status>>
                  /\ Done(c) <=> (Answers(c)[n].status \notin RetryableStatuses \/ n = 3)
                  /\ Done(c) => calls[c].outcome = Threw(calls[c].lastError)

C9_Witness ==
    \E c \in Calls :
        /\ Done(c) /\ Len(calls[c].requests) = 3
        /\ model = Str(<<"custom/model">>)
        /\ HttpFailure(Answers(c)[3]) /\ Answers(c)[3].status = 429

\* C10: calls in flight together do not interact.  Two calls of the same function
\* that got the same answers have the same delays, last error and outcome (and, once
\* settled, the same number of attempts) whatever the other did meanwhile; a step
\* changes the locals of at most one call (only the passing of time is common); a
\* call that is waiting never keeps another from starting or from sending its next
\* request; and no step changes the configuration.
Locals(r) == [r EXCEPT !.timer = 0]

C10_Determined ==
    \A c, d \in Calls :
        (calls[c].fn = calls[d].fn /\ Answers(c) = Answers(d)) =>
            /\ calls[c].delays = calls[d].delays
            /\ calls[c].lastError = calls[d].lastError
            /\ calls[c].outcome = calls[d].outcome
            /\ (Done(c) /\ Done(d)) =>
                   /\ calls[c].attempt = calls[d].attempt
                   /\ calls[c].requests = calls[d].requests

C10_NotBlocked ==
    \A c, d \in Calls :
        (c # d /\ Waiting(c)) =>
            /\ calls[d].pc = "idle" => ENABLED Generate(d, "generateChatResponse", "args")
            /\ (Waiting(d) /\ calls[d].timer = 0) => ENABLED TimerFires(d)

C10_Isolated ==
    /\ \A c, d \in Calls :
          c # d => ~(Locals(calls'[c]) # Locals(calls[c]) /\ Locals(calls'[d]) # Locals(calls[d]))
    /\ config' = config

C10_Independent == [](C10_Determined /\ C10_NotBlocked) /\ [][C10_Isolated]_vars

C10_Witness ==
    \E c, d \in Calls :
        /\ c # d
        /\ calls[c].fn = calls[d].fn
        /\ Answers(c) = Answers(d)
        /\ Len(Answers(c)) = 2
        /\ calls[c].pc = "calling" /\ Waiting(d) /\ calls[d].timer > 0

(***************************************************************************)
(* The auth forms: components/AuthModal.tsx and the AuthPage component.    *)
(* Both keep the same four pieces of state and the same handlers; the      *)
(* modal also has the isOpen, onAuth and onClose props.  Line numbers are  *)
(* AuthModal's, with AuthPage's in parentheses.                            *)
(*                                                                         *)
(* form is a record:                                                       *)
(*   component   "AuthModal" or "AuthPage"                                 *)
(*   isOpen      the isOpen prop (always TRUE for the page)                *)
(*   isSignUp, formData, isLoading, errors     the useState values         *)
(*   pending     the authApi call the handler is awaiting, if any          *)
(*   apiCalls, setTokenCalls, onAuthCalls, onCloseCalls                    *)
(*               how often handleSubmit called each collaborator           *)
(*   token       the token last given to setToken (0: none)                *)
(*   lastEvent   the handler that ran last, and how it ended               *)
(***************************************************************************)
Components == {"AuthModal", "AuthPage"}
ABSENT == "<absent>"                 \* a key the errors object does not have
Fields == {"name", "email", "password", "confirmPassword"}

NoErrors == [name |-> ABSENT, email |-> ABSENT, password |-> ABSENT, confirmPassword |-> ABSENT]
EmptyFormData == [name |-> <<>>, email |-> <<>>, password |-> <<>>, confirmPassword |-> <<>>]
NoRequest == [endpoint |-> "none", name |-> <<>>, email |-> <<>>, password |-> <<>>]

\* lines 11-19 (5-13): the state of a freshly mounted form
NewForm(component) ==
    [component |-> component, isOpen |-> TRUE,
     isSignUp |-> FALSE, formData |-> EmptyFormData,
     isLoading |-> FALSE, errors |-> NoErrors,
     pending |-> NoRequest,
     apiCalls |-> 0, setTokenCalls |-> 0, onAuthCalls |-> 0, onCloseCalls |-> 0,
     token |-> 0, lastEvent |-> "mount"]

\* line 28 (20): the pattern \S+@\S+\.\S+ tested anywhere in the text, on a text
\* given as its characters
NonSpace(ch) == ch # " "
EmailMatches(t) ==
    \E p, q \in 1..Len(t) :
        /\ t[p] = "@" /\ t[q] = "."
        /\ p >= 2 /\ NonSpace(t[p - 1])
        /\ q >= p + 2 /\ \A i \in (p + 1)..(q - 1) : NonSpace(t[i])
        /\ q + 1 <= Len(t) /\ NonSpace(t[q + 1])

\* lines 23-46 (15-38): newErrors
ValidateForm(f) ==
    [email |-> IF f.formData.email = <<>> THEN "Email is required"
               ELSE IF ~EmailMatches(f.formData.email) THEN "Email is invalid"
               ELSE ABSENT,
     password |-> IF f.formData.password = <<>> THEN "Password is required"
                  ELSE IF Len(f.formData.password) < 6
                       THEN "Password must be at least 6 characters"
                       ELSE ABSENT,
     name |-> IF f.isSignUp /\ f.formData.name = <<>> THEN "Name is required" ELSE ABSENT,
     confirmPassword |-> IF f.isSignUp /\ f.formData.password # f.formData.confirmPassword
                         THEN "Passwords do not match" ELSE ABSENT]

\* line 48 (40): Object.keys(newErrors).length === 0
NoKeys(e) == \A k \in Fields : e[k] = ABSENT

\* lines 61-72 (53-64): the call handleSubmit makes
AuthRequest(f) ==
    IF f.isSignUp
    THEN [endpoint |-> "signup", name |-> f.formData.name,
          email |-> f.formData.email, password |-> f.formData.password]
    ELSE [endpoint |-> "login", name |-> <<>>,
          email |-> f.formData.email, password |-> f.formData.password]

\* setIsLoading(true) moved above the validation, which then returns without
\* resetting it
HandleSubmit_LoadingFirst(f) ==
    IF ~NoKeys(ValidateForm(f))
    THEN [f EXCEPT !.errors = ValidateForm(f), !.isLoading = TRUE, !.lastEvent = "submit"]
    ELSE [f EXCEPT !.errors = ValidateForm(f), !.isLoading = TRUE,
                   !.pending = AuthRequest(f), !.apiCalls = @ + 1,
                   !.lastEvent = "submit"]

\* lines 51-72 (43-64): handleSubmit up to its await
HandleSubmit(f) ==
    IF ~NoKeys(ValidateForm(f))
    THEN [f EXCEPT !.errors = ValidateForm(f), !.lastEvent = "submit"]
    ELSE [f EXCEPT !.errors = ValidateForm(f), !.isLoading = TRUE,
                   !.pending = AuthRequest(f), !.apiCalls = @ + 1,
                   !.lastEvent = "submit"]

\* lines 83-87 (73-77): the catch block and the finally block
CatchAuthError(f, message) ==
    [f EXCEPT !.errors = [NoErrors EXCEPT !.email = message],
              !.isLoading = FALSE, !.pending = NoRequest, !.lastEvent = "failed"]

TYPE_ERROR_MESSAGE == "Cannot read properties of undefined (reading 'token')"
FALLBACK_MESSAGE == "Authentication failed. Please try again."

\* lines 75-80 and 87 (67-70 and 77): the awaited call resolved with response;
\* closes tells whether the parent answers onClose() by closing the modal
AuthResolved(f, response, closes) ==
    IF ~response.defined
    THEN [CatchAuthError(f, TYPE_ERROR_MESSAGE) EXCEPT !.lastEvent = "resolved"]
    ELSE LET f1 == [f EXCEPT !.token = response.token, !.setTokenCalls = @ + 1,
                             !.isLoading = FALSE, !.pending = NoRequest,
                             !.lastEvent = "resolved"]
         IN  IF f.component = "AuthModal"
             THEN [f1 EXCEPT !.onAuthCalls = @ + 1, !.onCloseCalls = @ + 1,
                             !.isOpen = IF closes THEN FALSE ELSE @]
             ELSE f1

\* lines 81-87 (71-77): the awaited call rejected with error
AuthRejected(f, error) ==
    CatchAuthError(f, IF error.isError THEN error.message ELSE FALLBACK_MESSAGE)

\* lines 91-97 (81-87): handleInputChange
HandleInputChange(f, name, value) ==
    [f EXCEPT !.formData = [@ EXCEPT ![name] = value],
              !.errors = IF f.errors[name] # ABSENT /\ f.errors[name] # ""
                         THEN [@ EXCEPT ![name] = ""]
                         ELSE @,
              !.lastEvent = "change"]

(***************************************************************************)
(* Inputs of the forms.                                                    *)
(***************************************************************************)
NameValues == {<<>>, <<"A", "n", "n">>}
EmailValues == {<<>>, <<"a", "n", "n">>, <<"a", "@", "x", ".", "i", "o">>}
PasswordValues == {<<>>, <<"a", "b", "c">>, <<"s", "e", "c", "r", "e", "t">>}
ValuesOf(name) ==
    IF name = "name" THEN NameValues
    ELSE IF name = "email" THEN EmailValues
    ELSE PasswordValues

\* what authApi.signup / authApi.login resolve with: a response with the token of
\* that call, or nothing usable
AuthResponses(f) == {[defined |-> TRUE, token |-> f.apiCalls],
                     [defined |-> FALSE, token |-> 0]}

\* what they reject with: an Error with a message, or a value that is no Error
AuthErrors == {[isError |-> TRUE, message |-> "Invalid credentials"],
               [isError |-> FALSE, message |-> ""]}

InitAuth ==
    /\ apiKey = UNDEFINED /\ model = DEFAULT_MODEL
    /\ siteUrl = Str(<<>>) /\ siteTitle = Str(<<>>)
    /\ calls = [c \in Calls |-> NewCall]
    /\ reply = NoBody
    /\ replyJson = FALSE
    /\ extracted = Pending
    /\ \E k \in Components : form = NewForm(k)

\* line 21: nothing is rendered while the modal is closed
Rendered == form.component = "AuthPage" \/ form.isOpen

RestUnchanged == UNCHANGED <<config, calls, reply, replyJson, extracted>>

\* an input's onChange
InputChange(name, value) ==
    /\ Rendered
    /\ form' = HandleInputChange(form, name, value)
    /\ RestUnchanged

\* the sign-up/login link's onClick: setIsSignUp(!isSignUp)
Toggle ==
    /\ Rendered
    /\ form' = [form EXCEPT !.isSignUp = ~@, !.lastEvent = "toggle"]
    /\ RestUnchanged

\* the form's onSubmit; the submit button is disabled while isLoading
Submit ==
    /\ Rendered
    /\ ~form.isLoading
    /\ form.apiCalls < MaxAuthCalls \/ ~NoKeys(ValidateForm(form))
    /\ form' = HandleSubmit(form)
    /\ RestUnchanged

CallResolves(response, closes) ==
    /\ form.pending # NoRequest
    /\ form' = AuthResolved(form, response, closes)
    /\ RestUnchanged

CallRejects(error) ==
    /\ form.pending # NoRequest
    /\ form' = AuthRejected(form, error)
    /\ RestUnchanged

\* the modal's close button: onClick={onClose}, the parent closes the modal
CloseClick ==
    /\ form.component = "AuthModal" /\ form.isOpen
    /\ form' = [form EXCEPT !.isOpen = FALSE, !.lastEvent = "close"]
    /\ RestUnchanged

\* the parent opens the modal again
Reopen ==
    /\ form.component = "AuthModal" /\ ~form.isOpen
    /\ form' = [form EXCEPT !.isOpen = TRUE, !.lastEvent = "open"]
    /\ RestUnchanged

NextAuth ==
    \/ \E name \in Fields : \E value \in ValuesOf(name) : InputChange(name, value)
    \/ Toggle
    \/ Submit
    \/ \E closes \in BOOLEAN : \E response \in AuthResponses(form) : CallResolves(response, closes)
    \/ \E error \in AuthErrors : CallRejects(error)
    \/ CloseClick
    \/ Reopen

SpecAuth == InitAuth /\ [][NextAuth]_vars

(***************************************************************************)
(* Properties of the auth forms (checked under SpecAuth).                  *)
(***************************************************************************)
\* what the forms accept, stated on the inputs: an email with the shape x@y.z, a
\* password of six characters or more and, when signing up, a name and a matching
\* confirmation
PassesValidation(f) ==
    /\ f.formData.email = <<"a", "@", "x", ".", "i", "o">>
    /\ Len(f.formData.password) >= 6
    /\ f.isSignUp => (f.formData.name # <<>> /\ f.formData.password = f.formData.confirmPassword)

SubmitStep == form'.lastEvent = "submit"
SettleStep == form'.lastEvent \in {"resolved", "failed"}

C11_Settled ==
    /\ form.isLoading <=> form.pending # NoRequest
    /\ form.setTokenCalls <= form.apiCalls
    /\ form.token <= form.apiCalls
    /\ form.token # 0 => form.setTokenCalls >= 1
    /\ form.onAuthCalls = (IF form.component = "AuthModal" THEN form.setTokenCalls ELSE 0)
    /\ form.onCloseCalls = form.onAuthCalls

C11_Steps ==
    /\ (SubmitStep /\ ~PassesValidation(form)) =>
           /\ form'.apiCalls = form.apiCalls
           /\ form'.pending = NoRequest
           /\ ~form'.isLoading /\ ~form.isLoading
           /\ form'.token = form.token /\ form'.setTokenCalls = form.setTokenCalls
           /\ \E k \in Fields : form'.errors[k] \notin {ABSENT, ""}
    /\ (SubmitStep /\ PassesValidation(form)) =>
           /\ form'.apiCalls = form.apiCalls + 1
           /\ form'.pending.endpoint = (IF form.isSignUp THEN "signup" ELSE "login")
           /\ form'.pending.email = form.formData.email
           /\ form'.pending.password = form.formData.password
           /\ form'.isLoading
           /\ form'.token = form.token /\ form'.setTokenCalls = form.setTokenCalls
    /\ (form'.setTokenCalls # form.setTokenCalls \/ form'.token # form.token) =>
           /\ form.pending # NoRequest
           /\ form'.lastEvent = "resolved"
           /\ form'.setTokenCalls = form.setTokenCalls + 1
           /\ form'.token = form.apiCalls
    /\ SettleStep =>
           /\ form.pending # NoRequest /\ form.isLoading
           /\ form'.pending = NoRequest /\ ~form'.isLoading
    /\ form'.lastEvent = "failed" =>
           /\ form'.errors.email \in {"Invalid credentials",
                                      "Authentication failed. Please try again."}
           /\ \A k \in Fields \ {"email"} : form'.errors[k] = ABSENT
           /\ form'.setTokenCalls = form.setTokenCalls /\ form'.token = form.token
           /\ form'.onAuthCalls = form.onAuthCalls
           /\ form'.onCloseCalls = form.onCloseCalls
           /\ form'.isOpen = form.isOpen

\* C11: in AuthModal and AuthPage, a submit of a form that fails validation makes
\* no signup/login call, stores no token and leaves isLoading false; setToken is
\* called only when the call of a validated submit has resolved; once that call has
\* settled either way isLoading is false again, and when it threw the message is in
\* errors.email and the modal's onAuth and onClose are not called.
C11_AuthFormSafety == [](C11_Settled) /\ [][C11_Steps]_vars

C11_Witness ==
    /\ form.component = "AuthModal"
    /\ form.lastEvent = "failed"
    /\ form.isSignUp
    /\ form.errors.email = "Invalid credentials"
    /\ form.apiCalls = 2 /\ form.setTokenCalls = 1 /\ form.onCloseCalls = 1
    /\ ~form.isLoading

====
